---- MODULE Spec2Model ----
(***************************************************************************)
(* State-machine model of src/video_slice_uploader.py: the command         *)
(* handlers of VideoSliceUploader that run on the GUI thread, the worker   *)
(* threads they launch (process_video, process_reupload,                   *)
(* _upload_specified_directory, _upload_other_files_thread, test_thread),  *)
(* the upload loops of upload_to_ftp and upload_to_qiniu, the FTP sessions *)
(* with their keep-alive threads, and the local cache directory.           *)
(***************************************************************************)
EXTENDS Integers, Sequences, FiniteSets, TLC

(* ------------------------------ bounds -------------------------------- *)

\* Threads alive at the same time.
MaxWorkers == 2

\* FTP sessions the server grants in one behaviour; further logins are refused.
MaxSessions == 1

\* Segment files one ffmpeg run writes at most.
MaxSegs == 1

\* Job directories the cache root can hold (directory names are fresh).
MaxDirs == 1

\* Cached job directories a reupload run finds in the cache root.
MaxCached == 2

\* Depth of the directory tree of the FTP server.
MaxDepth == 2

\* Calls of create_remote_directory on one session.
MaxCalls == 2

\* Fields the user types into between two commands of the configuration.
MaxEdits == 2

\* Characters of the upload path typed into the form at most.
MaxPathLen == 3

\* Files selected for the "other files" upload at most.
MaxOther == 1

(* --------------------------- program constants ------------------------ *)

\* max_retries of both upload loops.
max_retries == 3

(* ------------------------------ files --------------------------------- *)

\* File names of a job directory, in os.listdir order: 1..MaxSegs are
\* segment_%03d.ts, then playlist.m3u8, a second manifest and a text file.
PlaylistFile == MaxSegs + 1
ExtraManifest == MaxSegs + 2
NotesFile == MaxSegs + 3
FileIds == 1..(MaxSegs + 3)

Ext(f) == IF f <= MaxSegs THEN "ts" ELSE IF f <= ExtraManifest THEN "m3u8" ELSE "txt"

\* A directory that does not exist.
NoDir == {0}

\* sorted listing of a set of file ids
RECURSIVE Listing(_)
Listing(S) ==
    IF S = {} THEN <<>>
    ELSE LET m == CHOOSE x \in S : \A y \in S : x <= y
         IN <<m>> \o Listing(S \ {m})

\* f.endswith(('.ts', '.m3u8'))
Eligible(f) == Ext(f) \in {"ts", "m3u8"}

\* [f for f in os.listdir(output_dir) if f.endswith(('.ts', '.m3u8'))]
EligibleFiles(content) == Listing({f \in content : Eligible(f)})

\* ts_files and m3u8_files (both lists non-empty)
HasTsAndM3u8(content) ==
    /\ content # NoDir
    /\ \E f \in content : Ext(f) = "ts"
    /\ \E f \in content : Ext(f) = "m3u8"

(* ------------------------------ state --------------------------------- *)

VARIABLES
    creds,            \* which credential fields are non-empty, and use_ssl
    use_qiniu,        \* storage-type flag
    QINIU_AVAILABLE,  \* the qiniu SDK could be imported
    selected_files,   \* number of files selected for the other-files upload
    is_processing,    \* the processing flag
    has_cache_files,  \* result of the last update_cache_status
    cache,            \* Dirs -> set of file ids, or NoDir
    thr,              \* the threads launched so far, in launch order
    sessions,         \* the FTP sessions logged in so far
    remote,           \* the directory tree of the FTP server, seen by one session
    config,           \* the form fields, the configuration file, the start-up
    naming,           \* the remote names the upload functions derive for a job
    channel           \* the control channel of one FTP upload, command by command

\* the variables of the application threads
app == <<creds, use_qiniu, QINIU_AVAILABLE, selected_files, is_processing,
         has_cache_files, cache, thr, sessions>>

\* the variables the application threads leave alone
others == <<remote, config, naming, channel>>

vars == <<app, others>>

\* the job directory names of the cache root
Dirs == DOMAIN cache

\* Outcomes of one upload attempt of one file.  For upload_to_ftp:
\* "transient" is an exception whose text holds "10060", "permanent" one
\* whose text holds "553", "other" any other exception of the transfer.
\* For upload_to_qiniu: "transient" and "permanent" are a put_file_v2 that
\* fails with a retry-worthy error (a timeout) or with one that retrying does
\* not fix (401/403).  "local" is an exception raised before the transfer
\* call (os.path.getsize on a vanished file).
FtpOutcomes == {"ok", "transient", "permanent", "other"}
QiniuOutcomes == {"ok", "transient", "permanent"}

UploadKinds == {"video", "reupload", "specified", "other"}

\* A thread slot with no thread running.
Ended ==
    [kind |-> "none", pc |-> "done", dir |-> 0, queue |-> <<>>, qiniu |-> FALSE,
     files |-> <<>>, total_files |-> 0, idx |-> 0, cur |-> <<>>, fin |-> FALSE,
     upload_success |-> FALSE, files_uploaded |-> 0, sess |-> 0,
     dest |-> "none", result |-> FALSE, ffmpeg |-> "none",
     wait |-> 0, repair |-> "none", puts |-> 0]

\* A worker that has reached its finally block.
AtFinally(kind) == [Ended EXCEPT !.kind = kind, !.pc = "finally"]

\* A thread just launched by threading.Thread(...).start()
Launched(kind, pc, dir) == [Ended EXCEPT !.kind = kind, !.pc = pc, !.dir = dir]

Threads == 1..MaxWorkers

Running(t) == thr[t].pc # "done"

\* a slot for one more thread exists
CanLaunch == \E t \in Threads : ~Running(t)

\* all([server_ip, username, password, upload_path])
FtpConfigured == creds.server_ip /\ creds.username /\ creds.password /\ creds.upload_path

\* all([qiniu_access_key, qiniu_secret_key, qiniu_bucket_name])
QiniuConfigured == creds.qiniu_access_key /\ creds.qiniu_secret_key /\ creds.qiniu_bucket_name

\* the scan of update_cache_status: some job directory has .ts and .m3u8 files
ScanCache(c) == {d \in DOMAIN c : HasTsAndM3u8(c[d])}

\* update_cache_status: has_cache_files after scanning cache content c
UpdateCacheStatus(c) == ScanCache(c) # {}

\* a job directory name no thread is working on and that does not exist
FreeDir(d) == cache[d] = NoDir /\ \A t \in Threads : thr[t].dir # d

(* ------------------- the directory tree of the server ----------------- *)

\* Absolute paths of the server: sequences of directory names, <<>> is "/".
DirNames == {"hls", "video"}

Paths == UNION { [1..n -> DirNames] : n \in 0..MaxDepth }

Parent(p) == SubSeq(p, 1, Len(p) - 1)

\* The directory trees: sets of paths that hold "/" and every parent.
Trees == { T \in SUBSET Paths : <<>> \in T /\ \A p \in T : p = <<>> \/ Parent(p) \in T }

\* the value of remote while no create_remote_directory is looked at
NoRemote == [tree |-> {}, cwd |-> <<>>, target |-> <<>>, calls |-> <<>>]

\* ftp.mkd(full_path) on tree T: the reply of a server that lets the session
\* create directories.  An existing directory or a missing parent is
\* answered with a 550 error_perm.
MkdReply(T, p) == IF p \notin T /\ Parent(p) \in T THEN "ok" ELSE "550"

\* ftp.cwd(path) succeeds on an existing directory
CwdOk(T, p) == p \in T

\* create_remote_directory goes on after a 550 reply to mkd as it does after
\* a created directory
MkdTolerated_None(reply) == reply = "ok"

\* the replies to ftp.mkd after which create_remote_directory goes on: the
\* except ftplib.error_perm clause only logs the error
MkdTolerated(reply) == reply \in {"ok", "550"}

\* a command sent on the control connection: its name, the absolute path it
\* is about, and whether that path was a directory when it was sent
Command(name, path, T) == [cmd |-> name, path |-> path, existed |-> path \in T]

\* One round of the loop over the path components: st is the record
\* [tree, cwd, failed, cmds], i the index of the component.  cmds are the
\* commands sent so far: ftp.mkd(full_path), then ftp.cwd(full_path), then
\* ftp.cwd(part) if that cwd raised.
CreateLevel(st, target, i) ==
    LET full_path == SubSeq(target, 1, i)
        reply == MkdReply(st.tree, full_path)
        T == IF reply = "ok" THEN st.tree \cup {full_path} ELSE st.tree
        relative == Append(st.cwd, target[i])
        mkd == Command("MKD", full_path, st.tree)
        cwd == Command("CWD", full_path, T)
    IN IF st.failed THEN st
       ELSE IF ~MkdTolerated(reply)
       THEN [st EXCEPT !.failed = TRUE, !.cmds = Append(@, mkd)]
       ELSE [st EXCEPT !.tree = T,
                       !.cwd = IF CwdOk(T, full_path) THEN full_path
                               ELSE IF CwdOk(T, relative) THEN relative
                               ELSE st.cwd,
                       !.cmds = IF CwdOk(T, full_path) THEN @ \o <<mkd, cwd>>
                                ELSE @ \o <<mkd, cwd, Command("CWD", relative, T)>>]

RECURSIVE CreateLevels(_, _, _)
CreateLevels(st, target, i) ==
    IF i > Len(target) THEN st
    ELSE CreateLevels(CreateLevel(st, target, i), target, i + 1)

\* create_remote_directory(ftp, remote_dir) on tree T with working directory
\* cwd: the tree and working directory it leaves, and the value it returns.
CreateRemoteDirectory(T, cwd, target) ==
    LET st == CreateLevels([tree |-> T, cwd |-> <<>>, failed |-> FALSE,
                            cmds |-> <<Command("CWD", <<>>, T)>>], target, 1)
        final == Append(st.cmds, Command("CWD", target, st.tree))
    IN IF st.failed
       THEN [tree |-> st.tree, cwd |-> st.cwd, result |-> FALSE, cmds |-> st.cmds]
       ELSE IF CwdOk(st.tree, target)
       THEN [tree |-> st.tree, cwd |-> target, result |-> TRUE, cmds |-> final]
       ELSE [tree |-> st.tree, cwd |-> st.cwd, result |-> FALSE, cmds |-> final]

\* create_remote_directory called on the session with the target of remote
create_remote_directory ==
    /\ Len(remote.calls) < MaxCalls
    /\ LET r == CreateRemoteDirectory(remote.tree, remote.cwd, remote.target)
           made == r.tree \ remote.tree
       IN remote' = [remote EXCEPT !.tree = r.tree, !.cwd = r.cwd,
                                   !.calls = Append(@, [tree |-> r.tree, cwd |-> r.cwd,
                                                        result |-> r.result,
                                                        made |-> made,
                                                        cmds |-> r.cmds])]
    /\ UNCHANGED <<app, config, naming, channel>>

(* ---------------------- the remote names of a job --------------------- *)

\* Strings are sequences of characters.  The characters of an upload path:
\* the separator, the dot and two letters.
PathChars == {"/", ".", "v", "a"}

\* the values of upload_path
UploadPaths == UNION { [1..n -> PathChars] : n \in 0..MaxPathLen }

\* os.path.basename(output_dir): the names of two job directories
VideoNames == { <<"j">>, <<"k">> }

\* the names of a segment and of the playlist
FileNames == { <<"s">>, <<"p">> }

RECURSIVE LStrip(_)
LStrip(str) == IF str # <<>> /\ Head(str) = "/" THEN LStrip(Tail(str)) ELSE str

RECURSIVE RStrip(_)
RStrip(str) ==
    IF str # <<>> /\ str[Len(str)] = "/" THEN RStrip(SubSeq(str, 1, Len(str) - 1)) ELSE str

\* str.strip('/')
StripSlashes(str) == RStrip(LStrip(str))

\* the upload paths for which upload_to_ftp uses the job name alone, with
\* every one-letter path among them
Collapses_AnyLetter(stripped) == stripped \in {<<>>, <<".">>, <<"v">>, <<"a">>}

\* upload_path in ['', '.', 'v']
Collapses(stripped) == stripped \in {<<>>, <<".">>, <<"v">>}

\* remote_dir of upload_to_ftp
RemoteDir(upload_path, video_name) ==
    LET stripped == StripSlashes(upload_path)
    IN IF Collapses(stripped) THEN video_name
       ELSE stripped \o <<"/">> \o video_name

\* key of upload_to_qiniu: f"{video_name}/{filename}"
QiniuKey(video_name, filename) == video_name \o <<"/">> \o filename

\* the value of naming while no job is looked at
NoNaming == [upload_path |-> <<>>, video_name |-> <<>>, filename |-> <<>>, uploads |-> <<>>]

\* One upload of the job directory reaches the point where both functions
\* have derived their remote names; the form is not edited in between.
ResolveTarget ==
    /\ Len(naming.uploads) < 2
    /\ naming' = [naming EXCEPT !.uploads =
                    Append(@, [remote_dir |-> RemoteDir(naming.upload_path, naming.video_name),
                               key |-> QiniuKey(naming.video_name, naming.filename)])]
    /\ UNCHANGED <<app, remote, config, channel>>

(* ---------------- the control channel of one FTP upload --------------- *)

\* the value of channel while no upload is looked at
NoChannel == [pc |-> "none"]

\* A path string of the program: the names between its slashes, and whether
\* it starts with a slash.
PathString(absolute, segs) == [absolute |-> absolute, segs |-> segs]

\* the string ftp.pwd() returns in working directory cwd: the absolute path
Pwd(cwd) == PathString(TRUE, cwd)

\* str.rstrip('/'): of "/" the empty string is left
RStripSlash(ps) == IF ps.segs = <<>> THEN PathString(FALSE, <<>>) ELSE ps

\* remote_dir + '/' + filename
JoinFile(dir, filename) == PathString(dir.absolute, Append(dir.segs, filename))

\* remote_file of upload_to_ftp: the file name alone if the string of the
\* working directory equals remote_dir, else remote_dir + '/' + filename
RemoteFile(pwd, remote_dir, filename) ==
    IF RStripSlash(pwd) = RStripSlash(remote_dir)
    THEN PathString(FALSE, <<filename>>)
    ELSE JoinFile(remote_dir, filename)

\* the absolute path the server resolves path string ps to in directory cwd
Resolve(cwd, ps) == IF ps.absolute THEN ps.segs ELSE cwd \o ps.segs

\* the names of the files of the job directory, in listing order
JobFiles == <<"segment_000.ts", "playlist.m3u8">>

\* the replies to a STOR: the transfer completes, a timeout, a 553 error
StorReplies == {"ok", "transient", "permanent"}

\* The working directories the directory repair of the "553" branch can
\* leave the session in: "skipped" sends no cwd that succeeds; "ok" ends
\* with ftp.cwd('/' + work_dir), work_dir being remote_dir without its last
\* name, or remote_dir itself when it has one name only; "failed" stops at
\* the root or at one of the directories on the way.
RepairLeaves(cwd, target, r) ==
    IF r = "skipped" THEN {cwd}
    ELSE IF r = "ok" THEN {IF Len(target) > 1 THEN Parent(target) ELSE target}
    ELSE {SubSeq(target, 1, n) : n \in 0..Len(target)}

\* upload_to_ftp calls ftp.pwd() for the next file: PWD goes out
SendPwd ==
    /\ channel.pc = "file"
    /\ channel' = [channel EXCEPT !.pc = "pwd", !.inflight = "PWD"]
    /\ UNCHANGED <<app, remote, config, naming>>

\* the reply to PWD is read and remote_file is set
PwdReply ==
    /\ channel.pc = "pwd"
    /\ channel' = [channel EXCEPT
            !.pc = "attempt", !.inflight = "none", !.attempt = 1,
            !.remote_file = RemoteFile(Pwd(channel.cwd),
                                       PathString(FALSE, channel.target),
                                       JobFiles[channel.idx])]
    /\ UNCHANGED <<app, remote, config, naming>>

\* ftp.storbinary: STOR goes out and the data transfer begins
SendStor ==
    /\ channel.pc = "attempt"
    /\ channel' = [channel EXCEPT
            !.pc = "stor", !.inflight = "STOR",
            !.stors = Append(@, [file |-> JobFiles[channel.idx],
                                 path |-> Resolve(channel.cwd, channel.remote_file)])]
    /\ UNCHANGED <<app, remote, config, naming>>

\* the channel after the retry loop of the file has ended
NextFile(ch) ==
    IF ch.idx = Len(JobFiles) THEN [ch EXCEPT !.pc = "quit"]
    ELSE [ch EXCEPT !.pc = "file", !.idx = @ + 1]

\* the transfer ends and the reply to STOR is read; after a 553 reply the
\* directory repair runs
StorReply ==
    /\ channel.pc = "stor"
    /\ \E o \in StorReplies :
         LET ch == [channel EXCEPT !.inflight = "none"]
         IN IF o = "transient" /\ channel.attempt < max_retries
            THEN channel' = [ch EXCEPT !.pc = "attempt", !.attempt = @ + 1]
            ELSE IF o = "permanent"
            THEN \E r \in {"skipped", "ok", "failed"} :
                   \E d \in RepairLeaves(channel.cwd, channel.target, r) :
                      channel' = NextFile([ch EXCEPT !.cwd = d, !.repaired = TRUE])
            ELSE channel' = NextFile(ch)
    /\ UNCHANGED <<app, remote, config, naming>>

\* ftp.quit() after the file loop
SendQuit ==
    /\ channel.pc = "quit"
    /\ channel' = [channel EXCEPT !.pc = "closed"]
    /\ UNCHANGED <<app, remote, config, naming>>

\* ftp_keep_alive wakes up after time.sleep(30) and keep_alive sends NOOP
\* with ftp.voidcmd, whatever the worker is doing on the connection
KeepAliveSend ==
    /\ channel.pc # "none"
    /\ ~channel.noop
    /\ channel' = [channel EXCEPT !.noop = TRUE]
    /\ UNCHANGED <<app, remote, config, naming>>

\* voidcmd reads a reply, or raises and the exception is swallowed
KeepAliveReply ==
    /\ channel.noop
    /\ channel' = [channel EXCEPT !.noop = FALSE]
    /\ UNCHANGED <<app, remote, config, naming>>

(* ------------------- the form and the configuration file -------------- *)

JobFields == {"segment_duration", "quality_crf", "cache_path"}
FtpFields == {"server_ip", "server_port", "username", "password", "upload_path"}
QiniuFields == {"qiniu_access_key", "qiniu_secret_key", "qiniu_bucket_name", "qiniu_domain"}
StringFields == JobFields \cup FtpFields \cup QiniuFields

\* the fields save_config requires of the FTP and of the qiniu shape
FtpRequired == {"server_ip", "username", "password", "upload_path"}
QiniuRequired == {"qiniu_access_key", "qiniu_secret_key", "qiniu_bucket_name"}

\* What the user types into a field: nothing, or a text with blanks around.
Typed == {"", " b "}

\* str.strip()
Strip(v) == IF v = " b " THEN "b" ELSE v

\* a key that the configuration document does not hold
Absent == "<absent>"

\* the tk variables after setup_variables, before set_default_cache_path
Defaults ==
    [text |-> [f \in StringFields |->
                 IF f = "segment_duration" THEN "3"
                 ELSE IF f = "quality_crf" THEN "23"
                 ELSE IF f = "server_port" THEN "21"
                 ELSE ""],
     use_qiniu |-> FALSE,
     use_ssl |-> FALSE]

\* server_config.json does not exist
MissingDoc ==
    [state |-> "missing", storage_type |-> Absent,
     text |-> [f \in StringFields |-> Absent], use_ssl |-> Absent]

\* the value of config while the configuration is not looked at
NoConfig ==
    [startup |-> "running", form |-> Defaults, doc |-> MissingDoc,
     snapshot |-> Defaults, saved |-> FALSE, loaded |-> "none", edits |-> 0]

\* the fields of the credential shape a storage type selects
Shape(qiniu) == IF qiniu THEN QiniuFields ELSE FtpFields

Required(qiniu) == IF qiniu THEN QiniuRequired ELSE FtpRequired

\* the check of save_config: all([field.get().strip() ...]) of the shape
ShapeComplete(form) == \A f \in Required(form.use_qiniu) : Strip(form.text[f]) # ""

\* json encoding of the use_ssl BooleanVar
BoolText(b) == IF b THEN "true" ELSE "false"

\* config_data that holds the fields of both credential shapes
ConfigData_BothShapes(form) ==
    [state |-> "ok",
     storage_type |-> IF form.use_qiniu THEN "qiniu" ELSE "ftp",
     text |-> [f \in StringFields |-> Strip(form.text[f])],
     use_ssl |-> BoolText(form.use_ssl)]

\* config_data of save_config for the form
ConfigData(form) ==
    [state |-> "ok",
     storage_type |-> IF form.use_qiniu THEN "qiniu" ELSE "ftp",
     text |-> [f \in StringFields |->
                 IF f \in JobFields \cup Shape(form.use_qiniu)
                 THEN Strip(form.text[f]) ELSE Absent],
     use_ssl |-> IF form.use_qiniu THEN Absent ELSE BoolText(form.use_ssl)]

\* the document save_config leaves: written is whether open(..., 'w') worked
SaveConfig(form, doc, written) ==
    IF ShapeComplete(form) /\ written THEN ConfigData(form) ELSE doc

\* config_data.get("storage_type", "ftp")
StorageTypeDefault(form) == "ftp"

\* the form load_config leaves
LoadConfig(form, doc) ==
    IF doc.state # "ok" THEN form
    ELSE LET storage_type == IF doc.storage_type = Absent
                             THEN StorageTypeDefault(form) ELSE doc.storage_type
             qiniu == storage_type = "qiniu"
         IN [text |-> [f \in StringFields |->
                         IF f \in JobFields \cup Shape(qiniu) /\ doc.text[f] # Absent
                         THEN doc.text[f] ELSE form.text[f]],
             use_qiniu |-> qiniu,
             use_ssl |-> IF ~qiniu /\ doc.use_ssl # Absent
                         THEN doc.use_ssl = "true" ELSE form.use_ssl]

\* How creating a directory can go: it is there already, os.makedirs creates
\* it, or os.makedirs raises.
MakedirsOutcomes == {"exists", "created", "raises"}

\* set_default_cache_path, called by setup_variables while the window is
\* constructed: appdata and fallback are what happens to the two directories
set_default_cache_path ==
    /\ config.startup = "constructing"
    /\ \E appdata \in MakedirsOutcomes, fallback \in MakedirsOutcomes :
         config' =
           IF appdata # "raises"
           THEN [config EXCEPT !.startup = "running",
                               !.form.text["cache_path"] = "appdata"]
           ELSE IF fallback # "raises"
           THEN [config EXCEPT !.startup = "running",
                               !.form.text["cache_path"] = "cwd"]
           ELSE [config EXCEPT !.startup = "raised"]
    /\ UNCHANGED <<app, remote, naming, channel>>

\* the user fills in all fields of one credential shape
enter_credentials ==
    /\ config.startup = "running"
    /\ \E qiniu \in BOOLEAN :
         config' = [config EXCEPT
            !.form.text = [f \in StringFields |-> IF f \in Shape(qiniu) THEN "a" ELSE @[f]],
            !.loaded = "none"]
    /\ UNCHANGED <<app, remote, naming, channel>>

\* the user changes one field of the form
edit_field ==
    /\ config.startup = "running"
    /\ config.edits < MaxEdits
    /\ \/ \E f \in StringFields, v \in Typed :
            config' = [config EXCEPT !.form.text[f] = v, !.edits = @ + 1,
                                     !.loaded = "none"]
       \/ config' = [config EXCEPT !.form.use_qiniu = ~@, !.edits = @ + 1,
                                   !.loaded = "none"]
       \/ config' = [config EXCEPT !.form.use_ssl = ~@, !.edits = @ + 1,
                                   !.loaded = "none"]
    /\ UNCHANGED <<app, remote, naming, channel>>

\* save_config
save_config ==
    /\ config.startup = "running"
    /\ \E written \in BOOLEAN :
         LET done == ShapeComplete(config.form) /\ written
         IN config' = [config EXCEPT
                !.doc = SaveConfig(config.form, config.doc, written),
                !.snapshot = IF done THEN config.form ELSE @,
                !.saved = IF done THEN TRUE ELSE @,
                !.loaded = "none"]
    /\ UNCHANGED <<app, remote, naming, channel>>

\* load_config: loaded records how it ended
load_config ==
    /\ config.startup = "running"
    /\ config' = [config EXCEPT
          !.form = LoadConfig(config.form, config.doc),
          !.loaded = IF config.doc.state = "ok" THEN "ok" ELSE "reported"]
    /\ UNCHANGED <<app, remote, naming, channel>>

(* ------------------------------ Init ---------------------------------- *)

AllSet ==
    [server_ip |-> TRUE, server_port |-> TRUE, username |-> TRUE, password |-> TRUE,
     upload_path |-> TRUE, use_ssl |-> FALSE,
     qiniu_access_key |-> TRUE, qiniu_secret_key |-> TRUE, qiniu_bucket_name |-> TRUE]

\* The configurations the form is started with.
Configs ==
    { AllSet,
      [AllSet EXCEPT !.use_ssl = TRUE],
      [AllSet EXCEPT !.server_ip = FALSE],
      [AllSet EXCEPT !.qiniu_bucket_name = FALSE] }

\* Job directories found in the cache root at start-up.
InitContents == { NoDir, {1, PlaylistFile} }

Init ==
    /\ creds \in Configs
    /\ use_qiniu \in BOOLEAN
    /\ QINIU_AVAILABLE \in BOOLEAN
    /\ selected_files = 0
    /\ is_processing = FALSE
    /\ cache \in [1..MaxDirs -> InitContents]
    /\ has_cache_files = UpdateCacheStatus(cache)
    /\ thr = [t \in Threads |-> Ended]
    /\ sessions = <<>>
    /\ remote = NoRemote
    /\ config = NoConfig
    /\ naming = NoNaming
    /\ channel = NoChannel

(* ------------------------ command handlers ---------------------------- *)

\* the storage configuration check shared by test_connection and start_process
StorageConfigured == IF use_qiniu THEN QiniuConfigured ELSE FtpConfigured

Launch(rec) ==
    LET t == CHOOSE x \in Threads : ~Running(x) /\ \A y \in Threads : ~Running(y) => x <= y
    IN thr' = [thr EXCEPT ![t] = rec]

start_process ==
    /\ CanLaunch
    /\ \E video_ok \in BOOLEAN, d \in Dirs :
         /\ FreeDir(d)
         /\ IF is_processing \/ ~video_ok \/ ~StorageConfigured
            THEN UNCHANGED vars
            ELSE /\ is_processing' = TRUE
                 /\ Launch(Launched("video", "segment", d))
                 /\ UNCHANGED <<creds, use_qiniu, QINIU_AVAILABLE, selected_files,
                                has_cache_files, cache, sessions>>
    /\ UNCHANGED others

stop_process ==
    /\ is_processing' = FALSE
    /\ UNCHANGED <<creds, use_qiniu, QINIU_AVAILABLE, selected_files,
                   has_cache_files, cache, thr, sessions>>
    /\ UNCHANGED others

stop_upload_process ==
    /\ is_processing' = FALSE
    /\ UNCHANGED <<creds, use_qiniu, QINIU_AVAILABLE, selected_files,
                   has_cache_files, cache, thr, sessions>>
    /\ UNCHANGED others

reupload_from_cache ==
    /\ CanLaunch
    /\ IF is_processing \/ ~has_cache_files \/ ~FtpConfigured
       THEN UNCHANGED vars
       ELSE /\ is_processing' = TRUE
            /\ Launch(Launched("reupload", "scan", 0))
            /\ UNCHANGED <<creds, use_qiniu, QINIU_AVAILABLE, selected_files,
                           has_cache_files, cache, sessions>>
    /\ UNCHANGED others

\* validate_cache_directory(directory)
validate_cache_directory(d) == HasTsAndM3u8(cache[d])

load_specified_cache ==
    /\ CanLaunch
    /\ \E d \in Dirs \cup {0} :
         IF is_processing \/ ~FtpConfigured \/ d = 0 \/ ~validate_cache_directory(d)
         THEN UNCHANGED vars
         ELSE /\ is_processing' = TRUE
              /\ Launch(Launched("specified", "upload", d))
              /\ UNCHANGED <<creds, use_qiniu, QINIU_AVAILABLE, selected_files,
                             has_cache_files, cache, sessions>>
    /\ UNCHANGED others

\* load_files_from_folder: the files of the chosen folder become selected
load_files_from_folder ==
    /\ \E n \in 0..MaxOther : selected_files' = n
    /\ UNCHANGED <<creds, use_qiniu, QINIU_AVAILABLE, is_processing,
                   has_cache_files, cache, thr, sessions>>
    /\ UNCHANGED others

upload_other_files ==
    /\ CanLaunch
    /\ IF selected_files = 0
       THEN UNCHANGED vars
       ELSE IF ~use_qiniu
       THEN /\ use_qiniu' = TRUE
            /\ UNCHANGED <<creds, QINIU_AVAILABLE, selected_files, is_processing,
                           has_cache_files, cache, thr, sessions>>
       ELSE IF ~QiniuConfigured
       THEN UNCHANGED vars
       ELSE /\ Launch([Launched("other", "other", 0) EXCEPT !.total_files = selected_files])
            /\ UNCHANGED <<creds, use_qiniu, QINIU_AVAILABLE, selected_files,
                           is_processing, has_cache_files, cache, sessions>>
    /\ UNCHANGED others

\* The storage-type radio buttons are bound to use_qiniu: the user selects
\* the other storage type, on_storage_type_change swaps the visible frame.
on_storage_type_change ==
    /\ use_qiniu' = ~use_qiniu
    /\ UNCHANGED <<creds, QINIU_AVAILABLE, selected_files, is_processing,
                   has_cache_files, cache, thr, sessions>>
    /\ UNCHANGED others

test_connection ==
    /\ CanLaunch
    /\ IF ~StorageConfigured
       THEN UNCHANGED vars
       ELSE /\ Launch(Launched("test", "test", 0))
            /\ UNCHANGED <<creds, use_qiniu, QINIU_AVAILABLE, selected_files,
                           is_processing, has_cache_files, cache, sessions>>
    /\ UNCHANGED others

(* ------------------------------ sessions ------------------------------ *)

\* a session as connect_ftp leaves it after login: the control connection is
\* open and its keep-alive thread has been started
NewSession == [open |-> TRUE, keep_alive |-> TRUE]

\* The ways connect_ftp can end: "refused" is an exception of connect/login
\* (or of int(server_port)), "prot_p" an exception of ftp.prot_p() after the
\* keep-alive thread was started, "ok" returns the session.
ConnectOutcomes ==
    IF ~creds.server_port \/ Len(sessions) >= MaxSessions THEN {"refused"}
    ELSE {"refused", "ok"} \cup (IF creds.use_ssl THEN {"prot_p"} ELSE {})

\* sessions after connect_ftp ended with outcome o
connect_ftp(o) == IF o = "refused" THEN sessions ELSE Append(sessions, NewSession)

\* ftp.quit() on session s: the QUIT command is answered and the socket closed
quit(s) == [sessions EXCEPT ![s].open = FALSE]

\* the keep-alive thread of session s wakes up and sends NOOP; a reply and
\* an exception (swallowed) both leave the program state as it is
keep_alive(s) ==
    /\ sessions[s].keep_alive
    /\ UNCHANGED vars
    /\ UNCHANGED others

(* --------------------------- upload of one job ------------------------ *)

\* the thread record when the upload function returns r
Returned(rec, r) ==
    [rec EXCEPT !.pc = "returned", !.result = r, !.files = <<>>,
                !.cur = <<>>, !.fin = FALSE, !.upload_success = FALSE,
                !.wait = 0, !.repair = "none", !.puts = 0]

\* the thread record when the file loop starts on directory content c
StartLoop(rec, c) ==
    [rec EXCEPT !.pc = "put", !.files = EligibleFiles(c),
                !.total_files = Len(EligibleFiles(c)),
                !.idx = 0, !.cur = <<>>, !.fin = FALSE, !.upload_success = FALSE,
                !.files_uploaded = 0, !.wait = 0, !.repair = "none", !.puts = 0]

\* upload_to_server / upload_directory_to_server up to the end of connect
UploadStart(t) ==
    /\ thr[t].pc = "upload"
    /\ LET rec == [thr[t] EXCEPT !.qiniu = use_qiniu, !.files = <<>>, !.total_files = 0,
                                 !.idx = 0, !.cur = <<>>, !.fin = FALSE,
                                 !.upload_success = FALSE, !.files_uploaded = 0,
                                 !.sess = 0, !.dest = "none", !.result = FALSE]
           c == cache[thr[t].dir]
       IN IF use_qiniu
          THEN /\ thr' = [thr EXCEPT ![t] =
                          IF ~QINIU_AVAILABLE \/ ~QiniuConfigured \/ c = NoDir
                          THEN Returned(rec, FALSE)
                          ELSE StartLoop(rec, c)]
               /\ UNCHANGED sessions
          ELSE \E o \in ConnectOutcomes :
               /\ sessions' = connect_ftp(o)
               /\ thr' = [thr EXCEPT ![t] =
                          IF o = "ok"
                          THEN [rec EXCEPT !.pc = "ensure", !.sess = Len(sessions) + 1]
                          ELSE Returned(rec, FALSE)]
    /\ UNCHANGED <<creds, use_qiniu, QINIU_AVAILABLE, selected_files, is_processing,
                   has_cache_files, cache>>
    /\ UNCHANGED others

\* AfterEnsure with the result of create_remote_directory ignored
AfterEnsure_Ignored(rec, created) ==
    LET r == [rec EXCEPT !.dest = IF created THEN "ok" ELSE "failed"]
    IN IF cache[rec.dir] = NoDir
       THEN Returned(r, FALSE)
       ELSE StartLoop(r, cache[rec.dir])

\* upload_to_ftp after create_remote_directory returned created: return
\* False, or list the job directory (an exception if it is gone) and start
\* the file loop
AfterEnsure(rec, created) ==
    LET r == [rec EXCEPT !.dest = IF created THEN "ok" ELSE "failed"]
    IN IF ~created \/ cache[rec.dir] = NoDir
       THEN Returned(r, FALSE)
       ELSE StartLoop(r, cache[rec.dir])

\* upload_to_ftp: create_remote_directory and the directory listing
EnsureDestination(t) ==
    /\ thr[t].pc = "ensure"
    /\ \E created \in BOOLEAN :
         thr' = [thr EXCEPT ![t] = AfterEnsure(thr[t], created)]
    /\ UNCHANGED <<creds, use_qiniu, QINIU_AVAILABLE, selected_files, is_processing,
                   has_cache_files, cache, sessions>>
    /\ UNCHANGED others

\* FtpStops with a retry loop that gives up one attempt early
FtpStops_OneShort(o, n) == o # "transient" \/ n = max_retries - 1

\* the retry loop of upload_to_ftp stops after an attempt with outcome o
\* that was attempt number n of the file
FtpStops(o, n) == o # "transient" \/ n = max_retries

\* a retry loop that allows a fourth attempt
LoopStops_FourAttempts(rec, o, n) == o = "ok" \/ n = max_retries + 1

\* the retry loop of upload_to_qiniu stops after attempt n with outcome o
QiniuStops(o, n) == o = "ok" \/ n = max_retries

LoopStops(rec, o, n) == IF rec.qiniu THEN QiniuStops(o, n) ELSE FtpStops(o, n)

\* seconds the retry loop of upload_to_ftp sleeps after attempt n ended with
\* outcome o: time.sleep(5) in the "10060" branch
FtpWait(o, n) == IF o = "transient" THEN 5 ELSE 0

\* seconds the retry loop of upload_to_qiniu sleeps after attempt n ended
\* with outcome o: time.sleep(2) if attempt < max_retries, in both the else
\* branch and the except clause
QiniuWait(o, n) == IF o # "ok" /\ n < max_retries THEN 2 ELSE 0

LoopWait(rec, o, n) == IF rec.qiniu THEN QiniuWait(o, n) ELSE FtpWait(o, n)

\* How the directory repair in the "553" branch of upload_to_ftp can end:
\* "skipped" when the local file is gone, "ok" when the directories were
\* rebuilt, "failed" when one of its FTP commands raised; "none" when the
\* attempt did not get to the branch.
RepairOutcomes(rec, o) ==
    IF ~rec.qiniu /\ o = "permanent" THEN {"skipped", "ok", "failed"} ELSE {"none"}

\* a repair whose exception leaves the retry loop and upload_to_ftp
RepairAborts_OnFailure(r) == r = "failed"

\* Whether the repair that ended with r raises into the file loop: the
\* except Exception as dir_error clause logs the error, then comes the break.
RepairAborts(r) == FALSE

\* outcomes the attempt on file f of directory d can have now
AttemptOutcomes(rec, f) ==
    IF cache[rec.dir] # NoDir /\ f \in cache[rec.dir]
    THEN IF rec.qiniu THEN QiniuOutcomes ELSE FtpOutcomes
    ELSE {"local"}

\* a file loop that goes on to the next file after every attempt
AttemptFile_Next(rec) == rec.idx + 1

\* the file the next attempt is for: the current one, or the next of the
\* listing when the current one is finished
AttemptFile(rec) == IF rec.idx = 0 \/ rec.fin THEN rec.idx + 1 ELSE rec.idx

\* the thread record after one more attempt, with outcome o
Attempt(rec, o) ==
    LET next == rec.idx = 0 \/ rec.fin
        n == IF next THEN 1 ELSE Len(rec.cur) + 1
    IN [rec EXCEPT !.idx = AttemptFile(rec),
                   !.cur = IF next THEN <<o>> ELSE Append(rec.cur, o),
                   !.fin = LoopStops(rec, o, n),
                   !.upload_success = (o = "ok"),
                   !.files_uploaded = IF o = "ok" THEN @ + 1 ELSE @,
                   !.wait = LoopWait(rec, o, n),
                   !.repair = "none",
                   !.puts = @ + 1]

\* the thread record after the repair of the attempt ended with r
AfterRepair(rec, r) ==
    IF RepairAborts(r) THEN Returned(rec, FALSE) ELSE [rec EXCEPT !.repair = r]

\* one attempt of the current file, or the first attempt of the next file
PutFile(t) ==
    /\ thr[t].pc = "put"
    /\ AttemptFile(thr[t]) <= Len(thr[t].files)
    /\ \E o \in AttemptOutcomes(thr[t], thr[t].files[AttemptFile(thr[t])]) :
         \E r \in RepairOutcomes(thr[t], o) :
            thr' = [thr EXCEPT ![t] = AfterRepair(Attempt(thr[t], o), r)]
    /\ UNCHANGED <<creds, use_qiniu, QINIU_AVAILABLE, selected_files, is_processing,
                   has_cache_files, cache, sessions>>
    /\ UNCHANGED others

\* the thread record after the attempts with outcomes r, one after the other
RECURSIVE Attempts(_, _)
Attempts(rec, r) == IF r = <<>> THEN rec ELSE Attempts(Attempt(rec, Head(r)), Tail(r))

\* the outcome sequences over O with which the retry loop of a file runs
\* from its first attempt to its end
CompleteRuns(rec, O) ==
    { r \in UNION { [1..n -> O] : n \in 1..max_retries } :
        /\ LoopStops(rec, r[Len(r)], Len(r))
        /\ \A k \in 1..(Len(r) - 1) : ~LoopStops(rec, r[k], k) }

FtpRuns == CompleteRuns([qiniu |-> FALSE], FtpOutcomes)
FtpLocalRuns == CompleteRuns([qiniu |-> FALSE], {"local"})
QiniuRuns == CompleteRuns([qiniu |-> TRUE], QiniuOutcomes)
QiniuLocalRuns == CompleteRuns([qiniu |-> TRUE], {"local"})

\* the complete runs the next file of the listing can have now
FileRuns(rec) ==
    LET f == rec.files[AttemptFile(rec)]
    IN IF cache[rec.dir] # NoDir /\ f \in cache[rec.dir]
       THEN IF rec.qiniu THEN QiniuRuns ELSE FtpRuns
       ELSE IF rec.qiniu THEN QiniuLocalRuns ELSE FtpLocalRuns

\* the whole retry loop of the next file of the listing, in one step
UploadFile(t) ==
    /\ thr[t].pc = "put"
    /\ thr[t].idx = 0 \/ thr[t].fin
    /\ AttemptFile(thr[t]) <= Len(thr[t].files)
    /\ \E r \in FileRuns(thr[t]) :
         thr' = [thr EXCEPT ![t] =
                    [Attempts(thr[t], r) EXCEPT !.cur = <<>>, !.upload_success = FALSE,
                                                !.wait = 0, !.repair = "none",
                                                !.puts = 0]]
    /\ UNCHANGED <<creds, use_qiniu, QINIU_AVAILABLE, selected_files, is_processing,
                   has_cache_files, cache, sessions>>
    /\ UNCHANGED others

\* every file of the listing has been dealt with
LoopDone(rec) ==
    /\ rec.pc = "put"
    /\ IF rec.idx = 0 THEN Len(rec.files) = 0 ELSE rec.fin /\ rec.idx = Len(rec.files)

\* the value upload_to_ftp returns after the file loop and ftp.quit()
FtpResult(files_uploaded, total_files) == TRUE

\* the value upload_to_qiniu returns after the file loop
QiniuResult(files_uploaded, total_files) ==
    IF files_uploaded = total_files THEN TRUE ELSE files_uploaded > 0

\* upload_to_ftp after the loop: ftp.quit() and the return value
FtpFinish(t) ==
    /\ LoopDone(thr[t])
    /\ ~thr[t].qiniu
    /\ \E quit_ok \in BOOLEAN :
         IF quit_ok
         THEN /\ sessions' = quit(thr[t].sess)
              /\ thr' = [thr EXCEPT ![t] =
                    Returned(thr[t], FtpResult(thr[t].files_uploaded, thr[t].total_files))]
         ELSE /\ UNCHANGED sessions
              /\ thr' = [thr EXCEPT ![t] = Returned(thr[t], FALSE)]
    /\ UNCHANGED <<creds, use_qiniu, QINIU_AVAILABLE, selected_files, is_processing,
                   has_cache_files, cache>>
    /\ UNCHANGED others

\* upload_to_qiniu after the loop: the return value
QiniuFinish(t) ==
    /\ LoopDone(thr[t])
    /\ thr[t].qiniu
    /\ thr' = [thr EXCEPT ![t] =
            Returned(thr[t], QiniuResult(thr[t].files_uploaded, thr[t].total_files))]
    /\ UNCHANGED <<creds, use_qiniu, QINIU_AVAILABLE, selected_files, is_processing,
                   has_cache_files, cache, sessions>>
    /\ UNCHANGED others

(* ------------------------------ workers ------------------------------- *)

\* What execute_ffmpeg can leave in the fresh output directory: on exit code
\* 0 the segments and the playlist; on a failure nothing, or the part written
\* before the tool stopped.
FfmpegOk == { (1..k) \cup {PlaylistFile} : k \in 1..MaxSegs }
FfmpegFailed == { {}, {1, PlaylistFile} }

\* How the run of the tool ends: with exit code 0, with a nonzero exit code,
\* or Popen raises because the tool cannot be found or started.
FfmpegExits == {"0", "1", "unavailable"}

\* what a run that ends with exit leaves in the output directory
FfmpegWrites(exit) ==
    IF exit = "0" THEN FfmpegOk ELSE IF exit = "1" THEN FfmpegFailed ELSE {{}}

\* execute_ffmpeg that reports success whatever the tool did
execute_ffmpeg_Always(exit) == TRUE

\* the value execute_ffmpeg returns: return_code == 0, and False from the
\* except clause when Popen raised
execute_ffmpeg(exit) == exit = "0"

\* process_video up to the result of execute_ffmpeg
Segment(t) ==
    /\ thr[t].pc = "segment"
    /\ \/ \E exit \in FfmpegExits :
            \E c \in FfmpegWrites(exit) :
              /\ cache' = [cache EXCEPT ![thr[t].dir] = c]
              /\ thr' = [thr EXCEPT ![t] =
                     IF execute_ffmpeg(exit)
                     THEN [thr[t] EXCEPT !.pc = "upload", !.ffmpeg = exit]
                     ELSE [AtFinally("video") EXCEPT !.ffmpeg = exit,
                                                     !.dir = thr[t].dir]]
       \/ \* create_output_directory raises
          /\ UNCHANGED cache
          /\ thr' = [thr EXCEPT ![t] = AtFinally("video")]
    /\ UNCHANGED <<creds, use_qiniu, QINIU_AVAILABLE, selected_files, is_processing,
                   has_cache_files, sessions>>
    /\ UNCHANGED others

\* os.path.exists(playlist_file) for job directory d
PlaylistExists(d) == cache[d] # NoDir /\ PlaylistFile \in cache[d]

\* the cached jobs of q that process_reupload skips before its next upload
RECURSIVE SkipNoPlaylist(_)
SkipNoPlaylist(q) ==
    IF q = <<>> THEN <<>>
    ELSE IF PlaylistExists(Head(q)) THEN q ELSE SkipNoPlaylist(Tail(q))

\* process_reupload goes on with the cached jobs q
NextJob(rec, q) ==
    LET r == SkipNoPlaylist(q)
    IN IF r = <<>>
       THEN AtFinally(rec.kind)
       ELSE [Launched(rec.kind, "upload", Head(r)) EXCEPT !.queue = Tail(r)]

\* process_reupload: the scan of the cache root
ReuploadScan(t) ==
    /\ thr[t].pc = "scan"
    /\ thr' = [thr EXCEPT ![t] = NextJob(thr[t], Listing(ScanCache(cache)))]
    /\ UNCHANGED <<creds, use_qiniu, QINIU_AVAILABLE, selected_files, is_processing,
                   has_cache_files, cache, sessions>>
    /\ UNCHANGED others

\* what the caller does with the value the upload returned
AfterUpload(t) ==
    /\ thr[t].pc = "returned"
    /\ thr[t].kind \in {"video", "reupload", "specified"}
    /\ IF thr[t].kind = "video"
       THEN IF thr[t].result
            THEN /\ thr' = [thr EXCEPT ![t].pc = "cleanup"]
                 /\ UNCHANGED has_cache_files
            ELSE /\ thr' = [thr EXCEPT ![t] = AtFinally("video")]
                 /\ has_cache_files' = UpdateCacheStatus(cache)
       ELSE IF thr[t].kind = "reupload"
       THEN /\ thr' = [thr EXCEPT ![t] = NextJob(thr[t], thr[t].queue)]
            /\ UNCHANGED has_cache_files
       ELSE /\ thr' = [thr EXCEPT ![t] = AtFinally("specified")]
            /\ UNCHANGED has_cache_files
    /\ UNCHANGED <<creds, use_qiniu, QINIU_AVAILABLE, selected_files, is_processing,
                   cache, sessions>>
    /\ UNCHANGED others

\* The directory contents cleanup_local_files can leave behind: the files
\* are removed in listing order until a removal raises, then os.rmdir.
CleanupResults(c) ==
    IF c = NoDir THEN {NoDir}
    ELSE {NoDir} \cup
         { c \ {Listing(c)[i] : i \in 1..k} : k \in 0..Cardinality(c) }

\* an exception of os.remove or os.rmdir that leaves cleanup_local_files
CleanupRaises_Propagates(before, after) == after # NoDir

\* Whether cleanup_local_files raises when it turned the directory before
\* into after: its except Exception clause logs a warning, it never raises.
CleanupRaises(before, after) == FALSE

\* cleanup_local_files(output_dir) called from process_video after an upload
\* that returned True.  The result field keeps whether process_video goes on
\* to report the job as done; an exception would take it to its except
\* clause instead.
cleanup_local_files(t) ==
    /\ thr[t].pc = "cleanup"
    /\ \E c \in CleanupResults(cache[thr[t].dir]) :
         /\ cache' = [cache EXCEPT ![thr[t].dir] = c]
         /\ thr' = [thr EXCEPT ![t] =
                [AtFinally("video") EXCEPT
                    !.dir = thr[t].dir,
                    !.result = thr[t].result /\ ~CleanupRaises(cache[thr[t].dir], c)]]
    /\ UNCHANGED <<creds, use_qiniu, QINIU_AVAILABLE, selected_files, is_processing,
                   has_cache_files, sessions>>
    /\ UNCHANGED others

\* FinallyFlag of a finally block that does not touch the flag
FinallyFlag_Kept == is_processing

\* the value the finally block of a worker leaves in is_processing
FinallyFlag == FALSE

\* the finally block of process_video, process_reupload and
\* _upload_specified_directory; the thread ends
Finally(t) ==
    /\ thr[t].pc = "finally"
    /\ is_processing' = FinallyFlag
    /\ has_cache_files' =
          IF thr[t].kind = "video" THEN UpdateCacheStatus(cache) ELSE has_cache_files
    /\ thr' = [thr EXCEPT ![t] = Ended]
    /\ UNCHANGED <<creds, use_qiniu, QINIU_AVAILABLE, selected_files, cache, sessions>>
    /\ UNCHANGED others

\* _upload_other_files_thread: one put_file_v2 per selected file
OtherFiles(t) ==
    /\ thr[t].pc = "other"
    /\ thr' = [thr EXCEPT ![t] =
            IF ~QINIU_AVAILABLE \/ thr[t].idx = thr[t].total_files
            THEN Ended
            ELSE [thr[t] EXCEPT !.idx = @ + 1]]
    /\ UNCHANGED <<creds, use_qiniu, QINIU_AVAILABLE, selected_files, is_processing,
                   has_cache_files, cache, sessions>>
    /\ UNCHANGED others

\* test_thread of test_connection: connect_qiniu or connect_ftp
TestConnect(t) ==
    /\ thr[t].pc = "test"
    /\ IF use_qiniu
       THEN /\ thr' = [thr EXCEPT ![t] = Ended]
            /\ UNCHANGED sessions
       ELSE \E o \in ConnectOutcomes :
            /\ sessions' = connect_ftp(o)
            /\ thr' = [thr EXCEPT ![t] =
                   IF o = "ok"
                   THEN [thr[t] EXCEPT !.pc = "test_quit", !.sess = Len(sessions) + 1]
                   ELSE Ended]
    /\ UNCHANGED <<creds, use_qiniu, QINIU_AVAILABLE, selected_files, is_processing,
                   has_cache_files, cache>>
    /\ UNCHANGED others

\* test_thread: ftp.quit() after the success dialog
TestQuit(t) ==
    /\ thr[t].pc = "test_quit"
    /\ \E quit_ok \in BOOLEAN :
         sessions' = IF quit_ok THEN quit(thr[t].sess) ELSE sessions
    /\ thr' = [thr EXCEPT ![t] = Ended]
    /\ UNCHANGED <<creds, use_qiniu, QINIU_AVAILABLE, selected_files, is_processing,
                   has_cache_files, cache>>
    /\ UNCHANGED others

(* --------------------------- specification ---------------------------- *)

Next ==
    \/ start_process
    \/ stop_process
    \/ stop_upload_process
    \/ reupload_from_cache
    \/ load_specified_cache
    \/ load_files_from_folder
    \/ upload_other_files
    \/ on_storage_type_change
    \/ test_connection
    \/ \E t \in Threads :
         \/ Segment(t)
         \/ ReuploadScan(t)
         \/ UploadStart(t)
         \/ EnsureDestination(t)
         \/ UploadFile(t)
         \/ FtpFinish(t)
         \/ QiniuFinish(t)
         \/ AfterUpload(t)
         \/ cleanup_local_files(t)
         \/ Finally(t)
         \/ OtherFiles(t)
         \/ TestConnect(t)
         \/ TestQuit(t)
    \/ \E s \in 1..Len(sessions) : keep_alive(s)

Spec == Init /\ [][Next]_vars

(* ------------------- one upload job, attempt by attempt --------------- *)

\* The job directories the callers hand to the upload: they hold a segment
\* and a manifest (validate_cache_directory, the scan of process_reupload).
JobContents == { c \in SUBSET FileIds : HasTsAndM3u8(c) }

\* load_specified_cache has accepted job directory 1 and its worker is about
\* to call upload_directory_to_server.
InitJob ==
    /\ creds \in { c \in Configs : c.server_ip /\ c.username /\ c.password /\ c.upload_path }
    /\ use_qiniu \in BOOLEAN
    /\ QINIU_AVAILABLE \in BOOLEAN
    /\ selected_files = 0
    /\ is_processing = TRUE
    /\ cache \in { c \in [1..MaxDirs -> JobContents \cup {NoDir}] :
                     c[1] # NoDir /\ \A d \in 2..MaxDirs : c[d] = NoDir }
    /\ has_cache_files = TRUE
    /\ thr = [t \in Threads |-> IF t = 1 THEN Launched("specified", "upload", 1) ELSE Ended]
    /\ sessions = <<>>
    /\ remote = NoRemote
    /\ config = NoConfig
    /\ naming = NoNaming
    /\ channel = NoChannel

JobStep ==
    \E t \in Threads :
        \/ UploadStart(t)
        \/ EnsureDestination(t)
        \/ PutFile(t)
        \/ FtpFinish(t)
        \/ QiniuFinish(t)

SpecJob == InitJob /\ [][JobStep]_vars

(* ------------------- one worker from upload to its end ---------------- *)

\* A worker of process_video or of _upload_specified_directory is about to
\* call the upload for job directory 1.
InitWorker ==
    /\ creds \in { c \in Configs : c.server_ip /\ c.username /\ c.password /\ c.upload_path }
    /\ use_qiniu \in BOOLEAN
    /\ QINIU_AVAILABLE \in BOOLEAN
    /\ selected_files = 0
    /\ is_processing = TRUE
    /\ cache \in { c \in [1..MaxDirs -> JobContents \cup {NoDir}] :
                     c[1] # NoDir /\ \A d \in 2..MaxDirs : c[d] = NoDir }
    /\ has_cache_files = TRUE
    /\ \E kind \in {"video", "specified"} :
          thr = [t \in Threads |-> IF t = 1 THEN Launched(kind, "upload", 1) ELSE Ended]
    /\ sessions = <<>>
    /\ remote = NoRemote
    /\ config = NoConfig
    /\ naming = NoNaming
    /\ channel = NoChannel

WorkerStep ==
    \E t \in Threads :
        \/ UploadStart(t)
        \/ EnsureDestination(t)
        \/ PutFile(t)
        \/ FtpFinish(t)
        \/ QiniuFinish(t)
        \/ AfterUpload(t)
        \/ cleanup_local_files(t)
        \/ Finally(t)

\* The worker is a thread of its own that nothing waits for: every call it
\* makes returns or raises (the FTP calls have timeouts, the sleeps end), so
\* a step that is possible is taken.
SpecWorker == InitWorker /\ [][WorkerStep]_vars /\ WF_vars(WorkerStep)

(* ------------------- one reupload run over the cache ------------------ *)

\* reupload_from_cache has been accepted: the flag is set and process_reupload
\* is about to scan a cache root that holds MaxCached cached jobs.
InitReupload ==
    /\ creds \in { c \in Configs : c.server_ip /\ c.username /\ c.password /\ c.upload_path }
    /\ use_qiniu \in BOOLEAN
    /\ QINIU_AVAILABLE \in BOOLEAN
    /\ selected_files = 0
    /\ is_processing = TRUE
    /\ cache \in [1..MaxCached -> JobContents]
    /\ has_cache_files = TRUE
    /\ thr = [t \in Threads |-> IF t = 1 THEN Launched("reupload", "scan", 0) ELSE Ended]
    /\ sessions = <<>>
    /\ remote = NoRemote
    /\ config = NoConfig
    /\ naming = NoNaming
    /\ channel = NoChannel

ReuploadStep ==
    \/ stop_process
    \/ \E t \in Threads :
         \/ ReuploadScan(t)
         \/ UploadStart(t)
         \/ EnsureDestination(t)
         \/ UploadFile(t)
         \/ FtpFinish(t)
         \/ QiniuFinish(t)
         \/ AfterUpload(t)
         \/ Finally(t)

SpecReupload == InitReupload /\ [][ReuploadStep]_vars

(* --------------------- the scans of the cache root -------------------- *)

\* What a subdirectory of the cache root can hold: any files, or it is gone.
AnyContents == (SUBSET FileIds) \cup {NoDir}

\* The window has been built over an arbitrary cache root; the scan that
\* __init__ schedules has not run yet.
InitScan ==
    /\ creds = AllSet
    /\ use_qiniu \in BOOLEAN
    /\ QINIU_AVAILABLE = TRUE
    /\ selected_files = 0
    /\ is_processing = FALSE
    /\ cache \in [1..MaxCached -> AnyContents]
    /\ has_cache_files = FALSE
    /\ thr = [t \in Threads |-> Ended]
    /\ sessions = <<>>
    /\ remote = NoRemote
    /\ config = NoConfig
    /\ naming = NoNaming
    /\ channel = NoChannel

\* update_cache_status called from the GUI thread
update_cache_status ==
    /\ has_cache_files' = UpdateCacheStatus(cache)
    /\ UNCHANGED <<creds, use_qiniu, QINIU_AVAILABLE, selected_files, is_processing,
                   cache, thr, sessions>>
    /\ UNCHANGED others

ScanStep ==
    \/ update_cache_status
    \/ reupload_from_cache
    \/ load_specified_cache
    \/ \E t \in Threads : ReuploadScan(t)

SpecScan == InitScan /\ [][ScanStep]_vars

(* ----------------- create_remote_directory on a session --------------- *)

\* the application is idle
AppIdle ==
    /\ creds = AllSet
    /\ use_qiniu = FALSE
    /\ QINIU_AVAILABLE = TRUE
    /\ selected_files = 0
    /\ is_processing = FALSE
    /\ cache = [d \in 1..MaxDirs |-> NoDir]
    /\ has_cache_files = FALSE
    /\ thr = [t \in Threads |-> Ended]
    /\ sessions = <<>>

\* A session is logged in to a server with any directory tree, in any of
\* its directories, and a target directory is chosen.
InitEnsure ==
    /\ AppIdle
    /\ config = NoConfig
    /\ naming = NoNaming
    /\ channel = NoChannel
    /\ remote \in { r \in [tree : Trees, cwd : Paths, target : Paths \ {<<>>}, calls : {<<>>}] :
                      r.cwd \in r.tree }

SpecEnsure == InitEnsure /\ [][create_remote_directory]_vars

(* ------------------ start-up and the configuration file --------------- *)

\* server_config.json cannot be parsed
MalformedDoc == [MissingDoc EXCEPT !.state = "malformed"]

\* server_config.json holds the empty object
EmptyDoc == [MissingDoc EXCEPT !.state = "ok"]

\* The configuration files found at start-up: none, a malformed one, and
\* documents that lack some of the keys.
InitDocs ==
    { MissingDoc, MalformedDoc, EmptyDoc,
      [EmptyDoc EXCEPT !.text["server_ip"] = "b", !.text["qiniu_bucket_name"] = "b"],
      [EmptyDoc EXCEPT !.storage_type = "qiniu", !.text["qiniu_domain"] = "b"],
      [EmptyDoc EXCEPT !.storage_type = "ftp", !.use_ssl = "true"] }

\* setup_variables has set the tk variables and is about to call
\* set_default_cache_path.
InitConfig ==
    /\ AppIdle
    /\ remote = NoRemote
    /\ naming = NoNaming
    /\ channel = NoChannel
    /\ config \in [startup : {"constructing"}, form : {Defaults}, doc : InitDocs,
                   snapshot : {Defaults}, saved : {FALSE}, loaded : {"none"},
                   edits : {0}]

ConfigStep ==
    \/ set_default_cache_path
    \/ enter_credentials
    \/ edit_field
    \/ save_config
    \/ load_config

SpecConfig == InitConfig /\ [][ConfigStep]_vars

(* ------------------------ the remote names ---------------------------- *)

\* A job directory is about to be uploaded with some upload path in the form.
InitTarget ==
    /\ AppIdle
    /\ remote = NoRemote
    /\ config = NoConfig
    /\ channel = NoChannel
    /\ naming \in [upload_path : UploadPaths, video_name : VideoNames,
                   filename : FileNames, uploads : {<<>>}]

SpecTarget == InitTarget /\ [][ResolveTarget]_vars

(* ------------------- the commands of one FTP upload ------------------- *)

\* connect_ftp has started the keep-alive thread and create_remote_directory
\* has returned True: the session is in the target directory, and the file
\* loop of upload_to_ftp begins.
InitChannel ==
    /\ AppIdle
    /\ remote = NoRemote
    /\ config = NoConfig
    /\ naming = NoNaming
    /\ channel \in [pc : {"file"}, target : Paths \ {<<>>}, cwd : Paths, idx : {1},
                    attempt : {0}, remote_file : {PathString(FALSE, <<>>)},
                    inflight : {"none"}, noop : {FALSE}, stors : {<<>>},
                    repaired : {FALSE}]
    /\ channel.cwd = channel.target

ChannelStep ==
    \/ SendPwd
    \/ PwdReply
    \/ SendStor
    \/ StorReply
    \/ SendQuit
    \/ KeepAliveSend
    \/ KeepAliveReply

SpecChannel == InitChannel /\ [][ChannelStep]_vars

(* ------------------------------ claims -------------------------------- *)

\* the spec's Success of a finished job: every eligible file was uploaded
\* and there was at least one
AllUploaded(rec) == rec.files_uploaded = rec.total_files /\ rec.total_files > 0

\* the workers that start_process, reupload_from_cache and
\* load_specified_cache launch
FlagWorkers == {"video", "reupload", "specified"}

\* C1: the value an upload returns is True exactly if the number of uploaded
\* files equals the number of eligible files and is greater than zero.
C1_AggregateStatusLaw ==
    \A t \in Threads :
        thr[t].pc = "returned" => (thr[t].result <=> AllUploaded(thr[t]))

\* C2: process_video calls cleanup_local_files only for a job all of whose
\* eligible files were uploaded.
C2_CleanupOnlyAfterFullUpload ==
    \A t \in Threads : thr[t].pc = "cleanup" => AllUploaded(thr[t])

\* C3: a worker of any of the three entry points whose upload has returned
\* with every eligible file uploaded goes on to clean the job directory up.
C3_SuccessIsCleanedUp ==
    [][ \A t \in Threads :
          ( /\ thr[t].pc = "returned"
            /\ thr[t].kind \in FlagWorkers
            /\ AllUploaded(thr[t])
            /\ thr'[t] # thr[t] )
          => thr'[t].pc = "cleanup" ]_vars

\* all attempts of the log c failed with a transient error
AllTransient(c) == c # <<>> /\ \A i \in 1..Len(c) : c[i] = "transient"

\* C4: after each attempt, a file all of whose attempts so far were transient
\* failures is given up exactly when that was its 3rd attempt, it is not
\* counted as uploaded, and no file is ever attempted more than 3 times.
C4_TransientRetriedThreeTimes ==
    [][ \A t \in Threads :
          (thr[t].pc = "put" /\ thr'[t].pc = "put" /\ thr'[t] # thr[t])
          => /\ Len(thr'[t].cur) <= 3
             /\ AllTransient(thr'[t].cur)
                  => /\ thr'[t].fin <=> Len(thr'[t].cur) = 3
                     /\ ~thr'[t].upload_success
                     /\ thr'[t].files_uploaded = thr[t].files_uploaded ]_vars

\* C4 witness: a file has been given up after three transient failures.
C4_Witness ==
    \E t \in Threads :
        /\ thr[t].pc = "put"
        /\ thr[t].fin
        /\ thr[t].cur = <<"transient", "transient", "transient">>

\* C5: a file whose first attempt failed with a permanent error has been
\* attempted once only and is given up.
C5_PermanentNotRetried ==
    \A t \in Threads :
        (thr[t].pc = "put" /\ thr[t].cur # <<>> /\ thr[t].cur[1] = "permanent")
        => Len(thr[t].cur) = 1 /\ thr[t].fin /\ ~thr[t].upload_success

\* connect or ensureDestination of the job of thread record rec has failed
SetupFailed(rec) ==
    IF rec.qiniu
    THEN ~QINIU_AVAILABLE \/ ~QiniuConfigured
    ELSE rec.sess = 0 \/ rec.dest = "failed"

\* C6: a job whose connect or ensureDestination failed has returned False
\* without entering the retry loop of any file.
C6_SetupFailureAbortsJob ==
    \A t \in Threads :
        (thr[t].pc \in {"put", "returned"} /\ SetupFailed(thr[t]))
        => thr[t].pc = "returned" /\ ~thr[t].result /\ thr[t].idx = 0

\* C6 witness: an upload has returned after create_remote_directory failed.
C6_Witness ==
    \E t \in Threads :
        thr[t].pc = "returned" /\ ~thr[t].qiniu /\ thr[t].dest = "failed"

\* C7: when upload_to_ftp has returned, the session connect_ftp gave it is
\* closed.
C7_SessionClosedOnReturn ==
    \A t \in Threads :
        (thr[t].pc = "returned" /\ thr[t].sess # 0) => ~sessions[thr[t].sess].open

\* C8: at most one upload worker is running.
C8_SingleUploadWorker ==
    Cardinality({ t \in Threads : Running(t) /\ thr[t].kind \in UploadKinds }) <= 1

\* a thread of one of the three flag-guarded workers starts in slot t
Launches(t) == ~Running(t) /\ thr'[t].pc # "done" /\ thr'[t].kind \in FlagWorkers

\* C9: the flag is true when one of the three workers is launched, false when
\* such a worker has ended, and it only becomes true with such a launch.
C9_FlagDiscipline ==
    [][ /\ \A t \in Threads : Launches(t) => is_processing'
        /\ \A t \in Threads :
              (Running(t) /\ thr[t].kind \in FlagWorkers /\ thr'[t].pc = "done")
              => ~is_processing'
        /\ (~is_processing /\ is_processing') => \E t \in Threads : Launches(t) ]_vars

\* C9 witness: a process_video worker has ended after a failed run (the
\* empty job directory it left is still there) and the flag is false.
C9_Witness ==
    /\ \A t \in Threads : ~Running(t)
    /\ ~is_processing
    /\ \E d \in Dirs : cache[d] = {}

\* C10: no keep-alive thread runs for a session that is closed.
C10_KeepAliveEndsWithSession ==
    \A s \in 1..Len(sessions) : sessions[s].keep_alive => sessions[s].open

\* C11: once the flag has been cleared, a process_reupload worker that is at
\* a job boundary (the upload of a cached job has returned) begins no upload
\* of a further cached job.
C11_StopObservedAtJobBoundary ==
    [][ \A t \in Threads :
          ( /\ thr[t].kind = "reupload"
            /\ thr[t].pc = "returned"
            /\ ~is_processing
            /\ thr'[t] # thr[t] )
          => thr'[t].pc # "upload" ]_vars

\* the eligibility of the specification: at least one segment file and
\* exactly one manifest file
OneManifestJob(content) ==
    /\ content # NoDir
    /\ \E f \in content : Ext(f) = "ts"
    /\ Cardinality({f \in content : Ext(f) = "m3u8"}) = 1

\* C12: a subdirectory of the cache root is listed by the cache scan, and
\* accepted by validate_cache_directory, exactly if it holds at least one
\* .ts file and exactly one .m3u8 file.
C12_EligibilityPredicate ==
    \A d \in Dirs :
        /\ d \in ScanCache(cache) <=> OneManifestJob(cache[d])
        /\ validate_cache_directory(d) <=> OneManifestJob(cache[d])

\* C13: the second of two calls of create_remote_directory in a row with the
\* same target returns True and leaves the tree of the server and the
\* working directory of the session as the first call left them.
C13_EnsureDestinationIdempotent ==
    Len(remote.calls) >= 2 =>
        /\ remote.calls[2].result
        /\ remote.calls[2].tree = remote.calls[1].tree
        /\ remote.calls[2].cwd = remote.calls[1].cwd

\* C13 witness: the first call has created the two directories of the
\* target path, the second call has found them there.
C13_Witness ==
    /\ Len(remote.calls) = 2
    /\ Len(remote.target) = 2
    /\ Cardinality(remote.calls[1].made) = 2
    /\ remote.calls[2].made = {}
    /\ remote.calls[2].result

\* thread t calls ftp.connect in this step: connect_ftp is entered by a
\* worker or by test_thread, and int(server_port) does not raise
ConnectsFtp(t) ==
    /\ thr[t].pc \in {"upload", "test"}
    /\ thr'[t] # thr[t]
    /\ ~use_qiniu
    /\ creds.server_port

\* thread t builds the signing context Auth(access_key, secret_key) in this
\* step
BuildsAuth(t) ==
    /\ thr'[t] # thr[t]
    /\ QINIU_AVAILABLE
    /\ \/ thr[t].pc \in {"upload", "test"} /\ use_qiniu /\ QiniuConfigured
       \/ thr[t].pc = "other" /\ thr[t].idx = 0

\* C14: a connection attempt is made only while every field of the
\* credential shape that the storage-type flag selects is non-empty.
C14_ConnectOnlyWhenConfigured ==
    [][ \A t \in Threads :
          /\ ConnectsFtp(t) => FtpConfigured /\ creds.server_port
          /\ BuildsAuth(t) => QiniuConfigured ]_vars

\* the exits of the tool after which execute_ffmpeg has to report a failure
FfmpegFailures == FfmpegExits \ {"0"}

\* C15: process_video goes on to the upload exactly if the tool ended with
\* exit code 0; after any other end of the tool the worker does nothing but
\* its finally block: no session is opened, no file is put, nothing is
\* removed from the cache, and the flag is reset.
C15_SegmentProducerResult ==
    [][ \A t \in Threads :
          /\ (thr[t].pc = "segment" /\ thr'[t].ffmpeg # "none")
             => /\ thr'[t].pc = "upload" <=> thr'[t].ffmpeg = "0"
                /\ thr'[t].ffmpeg \in FfmpegFailures => thr'[t].pc = "finally"
          /\ (thr[t].ffmpeg \in FfmpegFailures /\ thr'[t] # thr[t])
             => /\ thr'[t].pc = "done"
                /\ ~is_processing'
                /\ sessions' = sessions
                /\ cache' = cache ]_vars

\* C15 witness: the tool has ended with a nonzero exit code after it wrote a
\* segment and the playlist, and the worker is at its finally block.
C15_Witness ==
    \E t \in Threads :
        /\ thr[t].pc = "finally"
        /\ thr[t].ffmpeg = "1"
        /\ \E d \in Dirs : cache[d] = {1, PlaylistFile}

\* C16: when a process_video worker ends after a failed segmentation run,
\* the cache scan does not list the output directory of that run as a cached
\* job.
C16_FailedRunIsNotCached ==
    [][ \A t \in Threads :
          (thr[t].ffmpeg \in FfmpegFailures /\ thr'[t].pc = "done")
          => thr[t].dir \notin ScanCache(cache') ]_vars

\* the cached jobs a process_reupload worker at a job boundary has still to
\* upload: all that the scan lists, or those listed after the job that has
\* returned
JobsLeft(rec) ==
    IF rec.pc = "scan" THEN Listing(ScanCache(cache)) ELSE rec.queue

\* C17: at every job boundary of a process_reupload run (after the scan and
\* after each upload, whatever it returned) the worker begins the upload of
\* the next directory the scan listed, and it ends when none is left.
C17_ReuploadIteratesScan ==
    [][ \A t \in Threads :
          ( /\ thr[t].kind = "reupload"
            /\ thr[t].pc \in {"scan", "returned"}
            /\ thr'[t] # thr[t] )
          => IF JobsLeft(thr[t]) = <<>>
             THEN thr'[t].pc = "finally"
             ELSE /\ thr'[t].pc = "upload"
                  /\ thr'[t].dir = Head(JobsLeft(thr[t]))
                  /\ thr'[t].queue = Tail(JobsLeft(thr[t])) ]_vars

\* C18: once set_default_cache_path has been called, it has returned without
\* an exception and cache_path is set.
C18_DefaultCachePathNeverRaises ==
    config.startup # "constructing"
        => config.startup = "running" /\ config.form.text["cache_path"] # ""

\* this step is a call of load_config
LoadStep == config'.loaded # "none" /\ config' # config

\* C19: load_config leaves every field whose key the document does not hold
\* (the storage-type selector included) as it was, and leaves the whole form
\* as it was when the document is missing or malformed.
C19_LoadKeepsAbsentFields ==
    [][ LoadStep =>
          LET doc == config.doc
              old == config.form
              new == config'.form
          IN IF doc.state # "ok" THEN new = old
             ELSE /\ \A f \in StringFields :
                        doc.text[f] = Absent => new.text[f] = old.text[f]
                  /\ doc.use_ssl = Absent => new.use_ssl = old.use_ssl
                  /\ doc.storage_type = Absent => new.use_qiniu = old.use_qiniu ]_vars

\* C20: save_config writes only for a complete active shape, and then the
\* trimmed job parameters and the trimmed fields of the active shape alone;
\* a later load_config sets the storage type, the job parameters and the
\* fields of the saved shape to the trimmed values of the saved form and
\* leaves the fields of the other shape as they were.
C20_ConfigRoundTrip ==
    [][ /\ ~ShapeComplete(config.form) => config'.doc = config.doc
        /\ config'.doc # config.doc =>
             \A f \in StringFields :
                config'.doc.text[f] =
                   IF f \in JobFields \cup Shape(config.form.use_qiniu)
                   THEN Strip(config.form.text[f]) ELSE Absent
        /\ (LoadStep /\ config.saved) =>
             LET saved == config.snapshot
                 old == config.form
                 new == config'.form
             IN /\ new.use_qiniu = saved.use_qiniu
                /\ \A f \in JobFields \cup Shape(saved.use_qiniu) :
                      new.text[f] = Strip(saved.text[f])
                /\ \A f \in Shape(~saved.use_qiniu) : new.text[f] = old.text[f]
                /\ new.use_ssl = IF saved.use_qiniu THEN old.use_ssl ELSE saved.use_ssl
       ]_vars

\* C20 witness: a form with blanks around a field of its shape has been
\* saved, and a load has put the trimmed text into the field.
C20_Witness ==
    /\ config.saved
    /\ config.loaded = "ok"
    /\ \E f \in Shape(config.snapshot.use_qiniu) :
          config.snapshot.text[f] = " b " /\ config.form.text[f] = "b"

\* C21: a cleanup_local_files that could not remove a file or the directory
\* does not raise into process_video: the worker goes on to its finally block
\* with the successful outcome of the upload kept, the files removed so far
\* stay removed, and the finally block resets the processing flag.
C21_CleanupFailureIsWarning ==
    [][ \A t \in Threads :
          /\ (thr[t].pc = "cleanup" /\ thr'[t] # thr[t]) =>
                /\ thr'[t].pc = "finally"
                /\ thr'[t].result = thr[t].result
                /\ thr'[t].result
                /\ \/ cache'[thr[t].dir] = NoDir
                   \/ cache'[thr[t].dir] \subseteq cache[thr[t].dir]
          /\ (thr[t].kind = "video" /\ thr[t].pc = "finally" /\ thr'[t] # thr[t]) =>
                thr'[t].pc = "done" /\ ~is_processing' ]_vars

\* C21 witness: the worker of process_video is at its finally block after a
\* successful upload and a cleanup that left the playlist in the directory.
C21_Witness ==
    \E t \in Threads :
        /\ thr[t].kind = "video"
        /\ thr[t].pc = "finally"
        /\ thr[t].result
        /\ cache[thr[t].dir] = {PlaylistFile}

\* the base paths the statement lets collapse to the job name: the empty
\* one, the dot, and a single letter
CollapsesAsStated(stripped) ==
    stripped = <<>> \/ stripped = <<".">> \/ (Len(stripped) = 1 /\ stripped[1] \in {"v", "a"})

\* C22 as stated: every one-letter base path collapses to the job name.
C22_TargetAsStated ==
    \A i \in 1..Len(naming.uploads) :
        LET stripped == StripSlashes(naming.upload_path)
        IN naming.uploads[i].remote_dir =
              IF CollapsesAsStated(stripped) THEN naming.video_name
              ELSE stripped \o <<"/">> \o naming.video_name

\* C22: the directory of the FTP backend is the base path without its outer
\* slashes + "/" + job name, and the job name alone when that base path is
\* empty, "." or the letter "v" (no other letter); every key of the object
\* storage is job name + "/" + file name; two uploads of the same job with
\* the same configuration derive the same names.
C22_TargetIsFunctionOfJob ==
    /\ \A i \in 1..Len(naming.uploads) :
          LET stripped == StripSlashes(naming.upload_path)
              up == naming.uploads[i]
          IN /\ up.remote_dir =
                   IF stripped \in {<<>>, <<".">>, <<"v">>} THEN naming.video_name
                   ELSE stripped \o <<"/">> \o naming.video_name
             /\ up.key = naming.video_name \o <<"/">> \o naming.filename
    /\ \A i, j \in 1..Len(naming.uploads) : naming.uploads[i] = naming.uploads[j]

\* C22 witness: the job has been uploaded twice with the one-letter base
\* path "/a/", which did not collapse.
C22_Witness ==
    /\ Len(naming.uploads) = 2
    /\ naming.upload_path = <<"/", "a", "/">>
    /\ naming.uploads[2].remote_dir = <<"a", "/">> \o naming.video_name

\* the files upload_to_ftp and upload_to_qiniu have to upload: every .ts and
\* every .m3u8 file of the job directory, in listing order
FilesToUpload(rec) == Listing({f \in cache[rec.dir] : Ext(f) \in {"ts", "m3u8"}})

\* C23: in the file loop the listing holds every .ts and .m3u8 file of the
\* job directory and no other file; no file has more than 3 attempts; an
\* attempt is for the file of the attempt before it, which was not finished,
\* or for the next file of the listing, and then the file before it had
\* succeeded or was given up; the loop is left only after the last file of
\* the listing was attempted, whatever the outcomes of the files before it.
C23_EveryFileAttemptedInOrder ==
    [][ \A t \in Threads :
          thr[t].pc = "put" =>
            /\ thr[t].files = FilesToUpload(thr[t])
            /\ Len(thr[t].cur) <= 3
            /\ (thr'[t].pc = "put" /\ thr'[t] # thr[t]) =>
                  /\ Len(thr'[t].cur) \in 1..3
                  /\ \/ /\ thr'[t].idx = thr[t].idx
                        /\ ~thr[t].fin
                        /\ Len(thr'[t].cur) = Len(thr[t].cur) + 1
                     \/ /\ thr'[t].idx = thr[t].idx + 1
                        /\ thr[t].idx = 0 \/ thr[t].fin
                        /\ Len(thr'[t].cur) = 1
            /\ thr'[t].pc # "put" =>
                  /\ thr[t].idx = Len(thr[t].files)
                  /\ thr[t].files = <<>> \/ thr[t].fin ]_vars

\* C23 witness: the first file was given up, after one attempt or after
\* three, and the second file has been uploaded at its first attempt.
C23_Witness ==
    \E t \in Threads :
        /\ thr[t].pc = "put"
        /\ thr[t].idx = 2
        /\ thr[t].puts \in {2, 4}
        /\ thr[t].files_uploaded = 1
        /\ thr[t].cur = <<"ok">>

\* C24: a wait follows an attempt only if the file has attempts left, so that
\* another attempt of the same file comes after it: after an attempt that
\* ended a file (its third one included) there is no wait; the FTP loop
\* waits 5 s, and only after a timeout, the object-storage loop 2 s.
C24_WaitOnlyBetweenAttempts ==
    \A t \in Threads :
        (thr[t].pc = "put" /\ thr[t].wait > 0) =>
            /\ ~thr[t].fin
            /\ Len(thr[t].cur) < 3
            /\ thr[t].cur[Len(thr[t].cur)] # "ok"
            /\ thr[t].wait = IF thr[t].qiniu THEN 2 ELSE 5
            /\ ~thr[t].qiniu => thr[t].cur[Len(thr[t].cur)] = "transient"

\* C25: the directory repair after a 553 error does not touch the outcomes:
\* however it ends, the attempt does not leave the file loop, the file is
\* given up and not counted as uploaded, and the attempt after it is the
\* first one of the next file of the listing.
C25_RepairIsSideChannel ==
    [][ \A t \in Threads :
          (thr[t].pc = "put" /\ thr'[t] # thr[t]) =>
            /\ ~LoopDone(thr[t]) => thr'[t].pc = "put"
            /\ (thr'[t].pc = "put" /\ thr'[t].repair # "none") =>
                  /\ thr'[t].cur[Len(thr'[t].cur)] = "permanent"
                  /\ thr'[t].fin
                  /\ ~thr'[t].upload_success
                  /\ thr'[t].files_uploaded = thr[t].files_uploaded
            /\ (thr[t].repair # "none" /\ thr'[t].pc = "put") =>
                  /\ thr'[t].idx = thr[t].idx + 1
                  /\ Len(thr'[t].cur) = 1 ]_vars

\* C25 witness: the repair for the first of two files has failed, and the
\* worker is in the file loop with the second file to come.
C25_Witness ==
    \E t \in Threads :
        /\ thr[t].pc = "put"
        /\ thr[t].repair = "failed"
        /\ thr[t].idx = 1
        /\ Len(thr[t].files) >= 2
        /\ thr[t].fin

\* C26: in every call of create_remote_directory each MKD is for a directory
\* that could not be entered: it comes right after a CWD to the same path
\* that failed, and a CWD to the path comes right after it; the call returns
\* False if the target cannot be entered at its end.
C26_EnterBeforeCreate ==
    \A k \in 1..Len(remote.calls) :
        LET call == remote.calls[k]
            cmds == call.cmds
        IN /\ \A i \in 1..Len(cmds) :
                cmds[i].cmd = "MKD" =>
                   /\ ~cmds[i].existed
                   /\ i > 1 /\ cmds[i-1] = Command("CWD", cmds[i].path, {})
                   /\ i < Len(cmds) /\ cmds[i+1].cmd = "CWD" /\ cmds[i+1].path = cmds[i].path
           /\ remote.target \notin call.tree => ~call.result

\* C27: every STOR of upload_to_ftp names, resolved against the working
\* directory of the session at that moment, the file of that name in the
\* target directory create_remote_directory ended in.
C27_StorInsideTarget ==
    channel.pc # "none" =>
        \A i \in 1..Len(channel.stors) :
            channel.stors[i].path = Append(channel.target, channel.stors[i].file)

\* C28: the keep-alive thread has no NOOP awaiting its reply on the session
\* while a command of the upload worker is awaiting its reply.
C28_NoInterleavedCommands ==
    channel.pc # "none" => ~(channel.noop /\ channel.inflight # "none")

\* reupload_from_cache gets to its threading.Thread(...).start()
ReuploadLaunches == reupload_from_cache /\ is_processing'

\* load_specified_cache gets to its threading.Thread(...).start()
SpecifiedLaunches == load_specified_cache /\ is_processing'

\* C29: while no job is processed, reupload_from_cache with cached jobs and
\* load_specified_cache with an eligible directory launch their worker
\* exactly if the fields of the storage type that is selected are filled in:
\* the key fields with the object storage selected, whatever the FTP fields
\* hold, and the FTP fields with the FTP server selected.
C29_ReuploadValidatesActiveShape ==
    (~is_processing /\ CanLaunch) =>
        /\ has_cache_files => ((ENABLED ReuploadLaunches) <=> StorageConfigured)
        /\ (\E d \in Dirs : validate_cache_directory(d)) =>
              ((ENABLED SpecifiedLaunches) <=> StorageConfigured)

\* C30: an upload makes at most 3 attempts per eligible file, 3 * N in all,
\* whatever the outcomes of the attempts; the worker gets to its end and
\* from then on the processing flag is false.
C30_UploadJobTerminates ==
    /\ [](\A t \in Threads : thr[t].pc = "put" => thr[t].puts <= 3 * thr[t].total_files)
    /\ <>[](~is_processing /\ \A t \in Threads : ~Running(t))

\* C30 witness: every one of at least two eligible files has had its three
\* attempts.
C30_Witness ==
    \E t \in Threads :
        /\ thr[t].pc = "put"
        /\ thr[t].total_files >= 2
        /\ thr[t].puts = 3 * thr[t].total_files
        /\ LoopDone(thr[t])

====
